---- MODULE Spec2Model ----
(***************************************************************************)
(* Model of the in-memory TODO task store (internal/task/model.go) and of  *)
(* the REST handler in front of it (internal/task/handler.go).             *)
(*                                                                         *)
(* A []*Task slice is modelled as a sequence of Task records; a *Task      *)
(* that may be nil is a sequence of length 0 (nil) or 1.                   *)
(***************************************************************************)
EXTENDS Integers, Sequences, FiniteSets, TLC

VARIABLES
    tasks,       \* inMemory.tasks
    nextID,      \* inMemory.nextID
    last,        \* the last Manager call: its arguments and what it returned
    createdIDs,  \* history: the IDs of the tasks returned by successful Create calls, in order
    deletedIDs,  \* history: the ids given to successful Delete calls
    numDeleted,  \* history: the number of successful Delete calls
    http,        \* the last HTTP exchange: the request and the response
    arg,         \* the slice handed to Sort.Tasks and Filter.Tasks
    res,         \* the last application of Sort.Tasks or Filter.Tasks to arg
    procs,       \* concurrent requests: where each goroutine is in its handler, and its response
    mem          \* the store as pointers into a heap of Task objects, with a caller's own Task

vars == <<tasks, nextID, last, createdIDs, deletedIDs, numDeleted, http, arg, res, procs, mem>>

----------------------------------------------------------------------------
(* Bounds *)

\* Manager calls: Create is offered while nextID < MaxID
MaxID == 3
\* HTTP requests: POST is offered while nextID < MaxReqID
MaxReqID == 2
\* longest slice handed to Sort.Tasks
MaxLen == 3
\* goroutines serving requests at the same time
NumProcs == 2
\* concurrent requests: a POST is begun while nextID < MaxConcID
MaxConcID == 2
\* Task objects allocated on the heap
MaxObjs == 4

----------------------------------------------------------------------------
(* model.go: errors and the Task type *)

NoErr == "nil"
ErrCreateEmptyTitle == "Create: empty title"
ErrUpdateUnknown == "Update: unknown task"
ErrDeleteUnknown == "Delete: unknown task"

\* Task{ID: id, Title: title}: every other field has its zero value
NewTask(id, title) ==
    [ID |-> id, Title |-> title, Date |-> 0, Note |-> "", Priority |-> 0, Done |-> FALSE]

\* the receiver *inMemory of the Manager methods
m == [tasks |-> tasks, nextID |-> nextID]

----------------------------------------------------------------------------
(* model.go: Sort and Filter *)

\* sorter.Swap
Swap(s, i, j) == [s EXCEPT ![i] = s[j], ![j] = s[i]]

\* the keys of the map sorters
sorters == {"dateAsc", "dateDesc", "priorityAsc", "priorityDesc"}

\* sorters[by](t1, t2), which is what sorter.Less calls
Less(by, t1, t2) ==
    CASE by = "dateAsc" -> t1.Date <= t2.Date
      [] by = "dateDesc" -> t1.Date >= t2.Date
      [] by = "priorityAsc" -> t1.Priority <= t2.Priority
      [] by = "priorityDesc" -> t1.Priority >= t2.Priority

\* the inner loop of sort.Sort's insertion sort:
\*   for j := i; j > a && data.Less(j, j-1); j-- { data.Swap(j, j-1) }
RECURSIVE InsertLoop(_, _, _)
InsertLoop(by, s, j) ==
    IF j > 1 /\ Less(by, s[j], s[j - 1])
    THEN InsertLoop(by, Swap(s, j, j - 1), j - 1)
    ELSE s

\* the outer loop: for i := a + 1; i < b; i++
RECURSIVE InsertionSort(_, _, _)
InsertionSort(by, s, i) ==
    IF i > Len(s) THEN s ELSE InsertionSort(by, InsertLoop(by, s, i), i + 1)

\* Sort.Tasks leaving the first element where it is
SortTasksFromThird(by, s) == InsertionSort(by, s, 3)

\* Sort.Tasks: sort.Sort(&sorter{tasks, s}), in place. For the slices of at
\* most 6 elements considered here every release of package sort runs the
\* insertion sort alone.
SortTasks(by, s) == InsertionSort(by, s, 2)

\* the keys of the map filters
filters == {"isDone", "isNotDone", "isScheduled"}

\* filters[f](t)
Keep(f, t) ==
    CASE f = "isDone" -> t.Done
      [] f = "isNotDone" -> ~t.Done
      [] f = "isScheduled" -> t.Date # 0

\* Filter.Tasks ranging over tasks[1:]
FilterTasksSkipFirst(f, s) ==
    IF s = <<>> THEN <<>> ELSE SelectSeq(Tail(s), LAMBDA t : Keep(f, t))

\* Filter.Tasks: a fresh slice of the elements satisfying f, in order
FilterTasks(f, s) == SelectSeq(s, LAMBDA t : Keep(f, t))

----------------------------------------------------------------------------
(* model.go: the Manager methods of inMemory.                              *)
(* Each returns the receiver after the call (m) with the call's results.   *)

\* the index of the first task with the given id, 0 if there is none:
\*   for i, t := range m.tasks { if t.ID == id {
IndexOf(ts, id) ==
    LET found == {i \in 1..Len(ts) : ts[i].ID = id}
    IN IF found = {} THEN 0 ELSE CHOOSE i \in found : \A k \in found : i <= k

\* Create taking the identifier from the number of stored tasks
CreateLenID(mm, title) ==
    IF title = ""
    THEN [m |-> mm, task |-> <<>>, err |-> ErrCreateEmptyTitle]
    ELSE LET t == NewTask(Len(mm.tasks), title)
         IN [m |-> [tasks |-> Append(mm.tasks, t), nextID |-> mm.nextID + 1],
             task |-> <<t>>, err |-> NoErr]

\* Create advancing the counter before it looks at the title
CreateCountsFirst(mm, title) ==
    IF title = ""
    THEN [m |-> [mm EXCEPT !.nextID = mm.nextID + 1], task |-> <<>>, err |-> ErrCreateEmptyTitle]
    ELSE LET t == NewTask(mm.nextID, title)
         IN [m |-> [tasks |-> Append(mm.tasks, t), nextID |-> mm.nextID + 1],
             task |-> <<t>>, err |-> NoErr]

\* Create storing the task before it looks at the title
CreateAppendsFirst(mm, title) ==
    LET t == NewTask(mm.nextID, title)
        stored == [tasks |-> Append(mm.tasks, t), nextID |-> mm.nextID + 1]
    IN IF title = ""
       THEN [m |-> stored, task |-> <<>>, err |-> ErrCreateEmptyTitle]
       ELSE [m |-> stored, task |-> <<t>>, err |-> NoErr]

Create(mm, title) ==
    IF title = ""
    THEN [m |-> mm, task |-> <<>>, err |-> ErrCreateEmptyTitle]
    ELSE LET t == NewTask(mm.nextID, title)
         IN [m |-> [tasks |-> Append(mm.tasks, t), nextID |-> mm.nextID + 1],
             task |-> <<t>>, err |-> NoErr]

Find(mm, id) ==
    LET i == IndexOf(mm.tasks, id)
    IN IF i = 0 THEN [task |-> <<>>, ok |-> FALSE]
       ELSE [task |-> <<mm.tasks[i]>>, ok |-> TRUE]

All(mm) == mm.tasks

\* Update copying the title alone into the stored record
UpdateTitleOnly(mm, task) ==
    LET i == IndexOf(mm.tasks, task.ID)
    IN IF i = 0 THEN [m |-> mm, err |-> ErrUpdateUnknown]
       ELSE [m |-> [mm EXCEPT !.tasks[i].Title = task.Title], err |-> NoErr]

\* Update storing a task it does not know instead of failing
UpdateUpsert(mm, task) ==
    LET i == IndexOf(mm.tasks, task.ID)
    IN IF i = 0 THEN [m |-> [mm EXCEPT !.tasks = Append(mm.tasks, task)], err |-> NoErr]
       ELSE [m |-> [mm EXCEPT !.tasks[i] = task], err |-> NoErr]

\* Update checking the title as Create does
UpdateNeedsTitle(mm, task) ==
    LET i == IndexOf(mm.tasks, task.ID)
    IN IF task.Title = "" THEN [m |-> mm, err |-> ErrCreateEmptyTitle]
       ELSE IF i = 0 THEN [m |-> mm, err |-> ErrUpdateUnknown]
       ELSE [m |-> [mm EXCEPT !.tasks[i] = task], err |-> NoErr]

Update(mm, task) ==
    LET i == IndexOf(mm.tasks, task.ID)
    IN IF i = 0 THEN [m |-> mm, err |-> ErrUpdateUnknown]
       ELSE [m |-> [mm EXCEPT !.tasks[i] = task], err |-> NoErr]

Count(mm) == Len(mm.tasks)

\* Delete cutting the slice at the task: m.tasks = m.tasks[:i]
DeleteTruncate(mm, id) ==
    LET i == IndexOf(mm.tasks, id)
    IN IF i = 0 THEN [m |-> mm, err |-> ErrDeleteUnknown]
       ELSE [m |-> [mm EXCEPT !.tasks = SubSeq(mm.tasks, 1, i - 1)], err |-> NoErr]

\* Delete moving the last task into the freed slot
DeleteSwapLast(mm, id) ==
    LET i == IndexOf(mm.tasks, id)
        n == Len(mm.tasks)
    IN IF i = 0 THEN [m |-> mm, err |-> ErrDeleteUnknown]
       ELSE [m |-> [mm EXCEPT !.tasks = SubSeq([mm.tasks EXCEPT ![i] = mm.tasks[n]], 1, n - 1)],
             err |-> NoErr]

\* m.tasks, m.tasks[m.Count()-1] = append(m.tasks[:i], m.tasks[i+1:]...), nil
\* append copies the tail one slot down inside the backing array; the new
\* slice is one shorter and the slot behind it is cleared.
Delete(mm, id) ==
    LET i == IndexOf(mm.tasks, id)
        n == Count(mm)
        shifted == [k \in 1..n |-> IF k >= i /\ k < n THEN mm.tasks[k + 1] ELSE mm.tasks[k]]
    IN IF i = 0 THEN [m |-> mm, err |-> ErrDeleteUnknown]
       ELSE [m |-> [mm EXCEPT !.tasks = SubSeq(shifted, 1, n - 1)], err |-> NoErr]

----------------------------------------------------------------------------
(* Manager calls, as the tests of model_test.go make them *)

\* titles given to Create
Titles == {"", "a"}

\* ids given to Find, Update and Delete: every id Create can assign, one it
\* never assigns and a negative one
IDs == -1..MaxID

\* the tasks given to Update
UpdateTasks ==
    {[ID |-> id, Title |-> "b", Date |-> 1, Note |-> "n", Priority |-> 1, Done |-> TRUE] : id \in IDs}
    \cup {[ID |-> id, Title |-> "", Date |-> 0, Note |-> "", Priority |-> 0, Done |-> FALSE] : id \in IDs}

NoCall == [op |-> "none", title |-> "", id |-> 0, task |-> <<>>, err |-> NoErr, ret |-> <<>>, ok |-> FALSE, n |-> 0]
NoHTTP == [method |-> "none", req |-> <<>>, code |-> 0, err |-> <<>>, out |-> <<>>]
NoRes == [fn |-> "none"]
NoProcs == <<>>
NoMem == [heap |-> <<>>, tasks |-> <<>>, nextID |-> 0, caller |-> 0, op |-> "none", upd |-> 0, err |-> NoErr]

DoCreate(title) ==
    LET r == Create(m, title)
    IN /\ nextID < MaxID
       /\ tasks' = r.m.tasks
       /\ nextID' = r.m.nextID
       /\ last' = [NoCall EXCEPT !.op = "Create", !.title = title, !.err = r.err, !.ret = r.task]
       /\ createdIDs' = IF r.err = NoErr THEN Append(createdIDs, r.task[1].ID) ELSE createdIDs
       /\ UNCHANGED <<procs, mem, deletedIDs, numDeleted, http, arg, res>>

DoFind(id) ==
    LET r == Find(m, id)
    IN /\ last' = [NoCall EXCEPT !.op = "Find", !.id = id, !.ret = r.task, !.ok = r.ok]
       /\ UNCHANGED <<procs, mem, tasks, nextID, createdIDs, deletedIDs, numDeleted, http, arg, res>>

DoUpdate(task) ==
    LET r == Update(m, task)
    IN /\ tasks' = r.m.tasks
       /\ nextID' = r.m.nextID
       /\ last' = [NoCall EXCEPT !.op = "Update", !.id = task.ID, !.task = <<task>>, !.err = r.err]
       /\ UNCHANGED <<procs, mem, createdIDs, deletedIDs, numDeleted, http, arg, res>>

DoDelete(id) ==
    LET r == Delete(m, id)
    IN /\ tasks' = r.m.tasks
       /\ nextID' = r.m.nextID
       /\ last' = [NoCall EXCEPT !.op = "Delete", !.id = id, !.err = r.err]
       /\ deletedIDs' = IF r.err = NoErr THEN deletedIDs \cup {id} ELSE deletedIDs
       /\ numDeleted' = IF r.err = NoErr THEN numDeleted + 1 ELSE numDeleted
       /\ UNCHANGED <<procs, mem, createdIDs, http, arg, res>>

DoCount ==
    /\ last' = [NoCall EXCEPT !.op = "Count", !.n = Count(m)]
    /\ UNCHANGED <<procs, mem, tasks, nextID, createdIDs, deletedIDs, numDeleted, http, arg, res>>

\* NewManager(): &inMemory{}
Init ==
    /\ tasks = <<>>
    /\ nextID = 0
    /\ last = NoCall
    /\ createdIDs = <<>>
    /\ deletedIDs = {}
    /\ numDeleted = 0
    /\ http = NoHTTP
    /\ arg = <<>>
    /\ res = NoRes
    /\ procs = NoProcs
    /\ mem = NoMem

NextManager ==
    \/ \E title \in Titles : DoCreate(title)
    \/ \E id \in IDs : DoFind(id)
    \/ \E task \in UpdateTasks : DoUpdate(task)
    \/ \E id \in IDs : DoDelete(id)
    \/ DoCount

SpecManager == Init /\ [][NextManager]_vars

----------------------------------------------------------------------------
(* handler.go: the REST handler.                                           *)
(* A URL path and a path segment are sequences of one-character strings.   *)
(* A request is [method, path, query, body]; query holds what              *)
(* r.URL.Query().Get returns for "filter" and "sortBy" ("" when absent).   *)
(* A body is [wellFormed, keys, val]: whether it is syntactically JSON,    *)
(* the keys of the object and the values given for them.                   *)

\* const Path = "/task/"
Path == <<"/", "t", "a", "s", "k", "/">>

StatusOK == 200
StatusBadRequest == 400
StatusNotFound == 404
StatusInternalServerError == 500

\* an error value: nil, an *errRequest or any other error
NilErr == [kind |-> "nil", code |-> 0, msg |-> NoErr]
PlainErr(msg) == [kind |-> "error", code |-> 0, msg |-> msg]
badRequestError(msg) == [kind |-> "errRequest", code |-> StatusBadRequest, msg |-> msg]
notFoundError(msg) == [kind |-> "errRequest", code |-> StatusNotFound, msg |-> msg]

DigitChars == <<"0", "1", "2", "3", "4", "5", "6", "7", "8", "9">>
IsDigit(c) == \E i \in 1..10 : DigitChars[i] = c
DigitVal(c) == (CHOOSE i \in 1..10 : DigitChars[i] = c) - 1

\* the value of a sequence of decimal digits, most significant first
RECURSIVE ParseDigits(_, _)
ParseDigits(ds, acc) ==
    IF ds = <<>> THEN acc ELSE ParseDigits(Tail(ds), acc * 10 + DigitVal(Head(ds)))

\* strconv.Atoi: an optional sign and at least one decimal digit
Atoi(s) ==
    LET signed == s # <<>> /\ Head(s) \in {"+", "-"}
        ds == IF signed THEN Tail(s) ELSE s
        v == ParseDigits(ds, 0)
    IN IF ds = <<>> \/ \E i \in 1..Len(ds) : ~IsDigit(ds[i])
       THEN [val |-> 0, err |-> "strconv.Atoi: invalid syntax"]
       ELSE [val |-> IF Head(s) = "-" THEN 0 - v ELSE v, err |-> NoErr]

\* parseID: strconv.Atoi(r.URL.Path[len(Path):])
parseID(r) == Atoi(SubSeq(r.path, Len(Path) + 1, Len(r.path)))

\* json.NewDecoder(r.Body).Decode(t) for t := new(Task): a key that is
\* absent leaves the zero value; a priority outside uint8 is a type error
decodeTask(body) ==
    LET has(k) == k \in body.keys
        zero == NewTask(0, "")
    IN IF ~body.wellFormed
       THEN [task |-> zero, err |-> "json: syntax error"]
       ELSE IF has("priority") /\ body.val.Priority \notin 0..255
       THEN [task |-> zero, err |-> "json: cannot unmarshal number into Go struct field Task.priority of type uint8"]
       ELSE [task |-> [ID |-> IF has("id") THEN body.val.ID ELSE 0,
                       Title |-> IF has("title") THEN body.val.Title ELSE "",
                       Date |-> IF has("date") THEN body.val.Date ELSE 0,
                       Note |-> IF has("note") THEN body.val.Note ELSE "",
                       Priority |-> IF has("priority") THEN body.val.Priority ELSE 0,
                       Done |-> IF has("done") THEN body.val.Done ELSE FALSE],
             err |-> NoErr]

\* json.NewDecoder(r.Body).Decode(&req) for req := struct{ Title string }:
\* every key but "title" is skipped
decodeTitle(body) ==
    IF ~body.wellFormed
    THEN [title |-> "", err |-> "json: syntax error"]
    ELSE [title |-> IF "title" \in body.keys THEN body.val.Title ELSE "", err |-> NoErr]

\* errorHandler: the status of the response. Nothing is written for a nil
\* error, which leaves the status at 200.
errorHandler(err) ==
    CASE err.kind = "nil" -> StatusOK
      [] err.kind = "errRequest" -> err.code
      [] OTHER -> StatusInternalServerError

\* Each handler returns the store after the request (m), its error and the
\* tasks it encoded into the response (out).

\* create dropping the error of tasks.Create
createDropsError(mm, r) ==
    LET req == decodeTitle(r.body)
        c == Create(mm, req.title)
    IN IF req.err # NoErr THEN [m |-> mm, err |-> badRequestError(req.err), out |-> <<>>]
       ELSE [m |-> c.m, err |-> NilErr, out |-> <<>>]

create(mm, r) ==
    LET req == decodeTitle(r.body)
        c == Create(mm, req.title)
    IN IF req.err # NoErr THEN [m |-> mm, err |-> badRequestError(req.err), out |-> <<>>]
       ELSE IF c.err # NoErr THEN [m |-> c.m, err |-> badRequestError(c.err), out |-> <<>>]
       ELSE [m |-> c.m, err |-> NilErr, out |-> <<>>]

\* read answering a missing task like an unparseable id
readMissingAsBad(mm, r) ==
    LET id == parseID(r)
        f == Find(mm, id.val)
    IN IF id.err # NoErr THEN [m |-> mm, err |-> badRequestError(id.err), out |-> <<>>]
       ELSE IF ~f.ok THEN [m |-> mm, err |-> badRequestError("task id doesn't exists"), out |-> <<>>]
       ELSE [m |-> mm, err |-> NilErr, out |-> f.task]

read(mm, r) ==
    LET id == parseID(r)
        f == Find(mm, id.val)
    IN IF id.err # NoErr THEN [m |-> mm, err |-> badRequestError(id.err), out |-> <<>>]
       ELSE IF ~f.ok THEN [m |-> mm, err |-> notFoundError("task id doesn't exists"), out |-> <<>>]
       ELSE [m |-> mm, err |-> NilErr, out |-> f.task]

\* readAll rejecting a selector it does not know
readAllStrict(mm, r) ==
    LET t0 == All(mm)
        filtered == r.query.filter \in filters
        t1 == IF filtered THEN FilterTasks(r.query.filter, t0) ELSE t0
        sorted == r.query.sortBy \in sorters
        t2 == IF sorted THEN SortTasks(r.query.sortBy, t1) ELSE t1
        unknown == \/ r.query.filter \notin filters \cup {""}
                   \/ r.query.sortBy \notin sorters \cup {""}
    IN IF unknown THEN [m |-> mm, err |-> badRequestError("unknown selector"), out |-> <<>>]
       ELSE [m |-> IF sorted /\ ~filtered THEN [mm EXCEPT !.tasks = t2] ELSE mm,
             err |-> NilErr, out |-> t2]

\* t := tasks.All() is the store's own slice: Sort.Tasks(t) reorders the
\* store unless Filter.Tasks has replaced t by a fresh slice.
readAll(mm, r) ==
    LET t0 == All(mm)
        filtered == r.query.filter \in filters
        t1 == IF filtered THEN FilterTasks(r.query.filter, t0) ELSE t0
        sorted == r.query.sortBy \in sorters
        t2 == IF sorted THEN SortTasks(r.query.sortBy, t1) ELSE t1
    IN [m |-> IF sorted /\ ~filtered THEN [mm EXCEPT !.tasks = t2] ELSE mm,
        err |-> NilErr, out |-> t2]

\* update looking the task up before it compares the two ids
updateFindFirst(mm, r) ==
    LET id == parseID(r)
        t == decodeTask(r.body)
    IN IF id.err # NoErr THEN [m |-> mm, err |-> badRequestError(id.err), out |-> <<>>]
       ELSE IF t.err # NoErr THEN [m |-> mm, err |-> badRequestError(t.err), out |-> <<>>]
       ELSE IF ~Find(mm, id.val).ok
       THEN [m |-> mm, err |-> notFoundError("task id doesn't exists"), out |-> <<>>]
       ELSE IF t.task.ID # id.val
       THEN [m |-> mm, err |-> badRequestError("inconsistent task IDs"), out |-> <<>>]
       ELSE LET u == Update(mm, t.task)
            IN [m |-> u.m, err |-> IF u.err = NoErr THEN NilErr ELSE PlainErr(u.err), out |-> <<>>]

update(mm, r) ==
    LET id == parseID(r)
        t == decodeTask(r.body)
    IN IF id.err # NoErr THEN [m |-> mm, err |-> badRequestError(id.err), out |-> <<>>]
       ELSE IF t.err # NoErr THEN [m |-> mm, err |-> badRequestError(t.err), out |-> <<>>]
       ELSE IF t.task.ID # id.val
       THEN [m |-> mm, err |-> badRequestError("inconsistent task IDs"), out |-> <<>>]
       ELSE IF ~Find(mm, id.val).ok
       THEN [m |-> mm, err |-> notFoundError("task id doesn't exists"), out |-> <<>>]
       ELSE LET u == Update(mm, t.task)
            IN [m |-> u.m, err |-> IF u.err = NoErr THEN NilErr ELSE PlainErr(u.err), out |-> <<>>]

\* delete returns the error of tasks.Delete as it is
delete(mm, r) ==
    LET id == parseID(r)
        d == Delete(mm, id.val)
    IN IF id.err # NoErr THEN [m |-> mm, err |-> badRequestError(id.err), out |-> <<>>]
       ELSE [m |-> d.m, err |-> IF d.err = NoErr THEN NilErr ELSE PlainErr(d.err), out |-> <<>>]

\* RestAPI rejecting PUT and DELETE without an id
RestAPINeedsID(mm, r) ==
    LET hasID == Len(r.path) > Len(Path)
        none == [m |-> mm, err |-> NilErr, out |-> <<>>]
        noID == [none EXCEPT !.err = badRequestError("missing id")]
        h == CASE r.method = "GET" -> IF hasID THEN read(mm, r) ELSE readAll(mm, r)
               [] r.method = "POST" -> create(mm, r)
               [] r.method = "PUT" -> IF hasID THEN update(mm, r) ELSE noID
               [] r.method = "DELETE" -> IF hasID THEN delete(mm, r) ELSE noID
               [] OTHER -> [none EXCEPT !.err = badRequestError("doesn't implemented")]
    IN [m |-> h.m, code |-> errorHandler(h.err), err |-> h.err, out |-> h.out]

\* RestAPI without the default case of the switch
RestAPINoDefault(mm, r) ==
    LET hasID == Len(r.path) > Len(Path)
        none == [m |-> mm, err |-> NilErr, out |-> <<>>]
        h == CASE r.method = "GET" -> IF hasID THEN read(mm, r) ELSE readAll(mm, r)
               [] r.method = "POST" -> create(mm, r)
               [] r.method = "PUT" -> IF hasID THEN update(mm, r) ELSE none
               [] r.method = "DELETE" -> IF hasID THEN delete(mm, r) ELSE none
               [] OTHER -> none
    IN [m |-> h.m, code |-> errorHandler(h.err), err |-> h.err, out |-> h.out]

RestAPI(mm, r) ==
    LET hasID == Len(r.path) > Len(Path)
        none == [m |-> mm, err |-> NilErr, out |-> <<>>]
        h == CASE r.method = "GET" -> IF hasID THEN read(mm, r) ELSE readAll(mm, r)
               [] r.method = "POST" -> create(mm, r)
               [] r.method = "PUT" -> IF hasID THEN update(mm, r) ELSE none
               [] r.method = "DELETE" -> IF hasID THEN delete(mm, r) ELSE none
               [] OTHER -> [none EXCEPT !.err = badRequestError("doesn't implemented")]
    IN [m |-> h.m, code |-> errorHandler(h.err), err |-> h.err, out |-> h.out]

----------------------------------------------------------------------------
(* HTTP requests, as the tests of model_test.go and the README make them *)

\* the path segments behind /task/: none, every id POST can assign, one it
\* never assigns, a negative id, a signed zero and a non-number
Segs ==
    {<<>>, <<"x">>, <<"-", "1">>, <<"+", "0">>} \cup {<<DigitChars[i + 1]>> : i \in 0..MaxReqID}

\* values of the query parameters filter and sortBy
FilterParams == {"", "bogus"} \cup filters
SortParams == {"", "bogus"} \cup sorters
Queries == [filter : FilterParams, sortBy : SortParams]
NoQuery == [filter |-> "", sortBy |-> ""]

NoBody == [wellFormed |-> FALSE, keys |-> {}, val |-> NewTask(0, "")]
Object(keys, val) == [wellFormed |-> TRUE, keys |-> keys, val |-> val]

\* bodies of POST: {"title":"a"}, {"title":""}, {}, one with a key that
\* create does not read, and one that is not JSON
PostBodies ==
    { Object({"title"}, NewTask(0, "a")),
      Object({"title"}, NewTask(0, "")),
      Object({}, NewTask(0, "")),
      Object({"title", "priority"}, [NewTask(0, "a") EXCEPT !.Priority = 256]),
      NoBody }

\* bodies of PUT: a full task for every id, a bare {"id":0}, a body without
\* id, one with a priority that is no uint8, and one that is not JSON
FullTask(id) == [ID |-> id, Title |-> "b", Date |-> 1, Note |-> "n", Priority |-> 1, Done |-> TRUE]
AllKeys == {"id", "title", "date", "note", "priority", "done"}
PutBodies ==
    {Object(AllKeys, FullTask(id)) : id \in 0..MaxReqID}
    \cup { Object({"id"}, NewTask(0, "")),
           Object({"title"}, NewTask(0, "b")),
           Object({"id", "priority"}, [NewTask(0, "") EXCEPT !.Priority = 256]),
           NoBody }

Request(method, seg, query, body) ==
    [method |-> method, path |-> Path \o seg, query |-> query, body |-> body]

\* the requests of each kind
GetOneRequests == {Request("GET", seg, NoQuery, NoBody) : seg \in Segs \ {<<>>}}
GetAllRequests == {Request("GET", <<>>, query, NoBody) : query \in Queries}
PostRequests == {Request("POST", <<>>, NoQuery, body) : body \in PostBodies}
PutRequests == {Request("PUT", seg, NoQuery, body) : seg \in Segs, body \in PutBodies}
DeleteRequests == {Request("DELETE", seg, NoQuery, NoBody) : seg \in Segs}
OtherRequests ==
    {Request(method, seg, NoQuery, body) :
        method \in {"PATCH", "UNKNOWN"}, seg \in {<<>>, <<"0">>},
        body \in {NoBody, Object(AllKeys, FullTask(0))}}

\* RestAPI(w, r) on the shared store tasks
Serve(r) ==
    LET w == RestAPI(m, r)
    IN /\ tasks' = w.m.tasks
       /\ nextID' = w.m.nextID
       /\ http' = [method |-> r.method, req |-> r, code |-> w.code, err |-> w.err, out |-> w.out]
       /\ UNCHANGED <<procs, mem, last, createdIDs, deletedIDs, numDeleted, arg, res>>

\* GET /task/{id}
GetOne(r) == r.method = "GET" /\ Len(r.path) > Len(Path) /\ Serve(r)

\* GET /task/?filter=..&sortBy=..
GetAll(r) == r.method = "GET" /\ Len(r.path) = Len(Path) /\ Serve(r)

\* POST /task/
Post(r) == r.method = "POST" /\ nextID < MaxReqID /\ Serve(r)

\* PUT /task/{id} and PUT /task/
Put(r) == r.method = "PUT" /\ Serve(r)

\* DELETE /task/{id} and DELETE /task/
DeleteReq(r) == r.method = "DELETE" /\ Serve(r)

\* any other method
Other(r) == r.method \notin {"GET", "POST", "PUT", "DELETE"} /\ Serve(r)

Next ==
    \/ \E r \in GetOneRequests : GetOne(r)
    \/ \E r \in GetAllRequests : GetAll(r)
    \/ \E r \in PostRequests : Post(r)
    \/ \E r \in PutRequests : Put(r)
    \/ \E r \in DeleteRequests : DeleteReq(r)
    \/ \E r \in OtherRequests : Other(r)

Spec == Init /\ [][Next]_vars

----------------------------------------------------------------------------
(* Sort.Tasks on its own *)

\* the slices handed to Sort.Tasks: up to MaxLen tasks, told apart by
\* their IDs, with every combination of dates, priorities and done flags
SortKeys == [Date : {0, 1}, Priority : {0, 1}, Done : BOOLEAN]
SortInputs ==
    UNION { { [i \in 1..n |-> [ID |-> i - 1, Title |-> "a", Date |-> k[i].Date, Note |-> "",
                               Priority |-> k[i].Priority, Done |-> k[i].Done]]
              : k \in [1..n -> SortKeys] }
            : n \in 0..MaxLen }

InitSort ==
    /\ tasks = <<>>
    /\ nextID = 0
    /\ last = NoCall
    /\ createdIDs = <<>>
    /\ deletedIDs = {}
    /\ numDeleted = 0
    /\ http = NoHTTP
    /\ arg \in SortInputs
    /\ res = NoRes
    /\ procs = NoProcs
    /\ mem = NoMem

\* Sort(sorters[by]).Tasks(arg)
ApplySort(by) ==
    /\ res' = [fn |-> "Sort", by |-> by, out |-> SortTasks(by, arg)]
    /\ UNCHANGED <<procs, mem, tasks, nextID, last, createdIDs, deletedIDs, numDeleted, http, arg>>

\* Filter(filters[f]).Tasks(arg): out is the slice returned, seq the
\* argument slice after the call, which Filter.Tasks only reads
ApplyFilter(f) ==
    /\ res' = [fn |-> "Filter", by |-> f, out |-> FilterTasks(f, arg), seq |-> arg]
    /\ UNCHANGED <<procs, mem, tasks, nextID, last, createdIDs, deletedIDs, numDeleted, http, arg>>

NextSort ==
    \/ \E by \in sorters : ApplySort(by)
    \/ \E f \in filters : ApplyFilter(f)

SpecSort == InitSort /\ [][NextSort]_vars

----------------------------------------------------------------------------
(* Requests served at the same time.                                       *)
(* net/http runs RestAPI in one goroutine per request and the store has no *)
(* lock, so the statements of the handlers interleave. A goroutine is      *)
(* [pc, method, id, code]: its position, the method of its request, the    *)
(* identifier it works with and the status of its response (0 before).     *)

Procs == 1..NumProcs

\* the ids of the concurrent PUT and DELETE requests
ConcIDs == 0..(MaxConcID - 1)

Idle == [pc |-> "idle", method |-> "none", id |-> 0, code |-> 0]

InitConc ==
    /\ tasks = <<>>
    /\ nextID = 0
    /\ last = NoCall
    /\ createdIDs = <<>>
    /\ deletedIDs = {}
    /\ numDeleted = 0
    /\ http = NoHTTP
    /\ arg = <<>>
    /\ res = NoRes
    /\ procs = [p \in Procs |-> Idle]
    /\ mem = NoMem

\* POST {"title":"a"}: create decodes the body and calls Create, whose
\* first statement reads the counter: t := &Task{ID: m.nextID, Title: title}
CreateNewTask(p) ==
    /\ procs[p].pc = "idle"
    /\ nextID < MaxConcID
    /\ procs' = [procs EXCEPT ![p] = [pc |-> "append", method |-> "POST", id |-> nextID, code |-> 0]]
    /\ UNCHANGED <<tasks, nextID, last, createdIDs, deletedIDs, numDeleted, http, arg, res, mem>>

\* m.tasks = append(m.tasks, t)
CreateAppend(p) ==
    /\ procs[p].pc = "append"
    /\ tasks' = Append(tasks, NewTask(procs[p].id, "a"))
    /\ createdIDs' = Append(createdIDs, procs[p].id)
    /\ procs' = [procs EXCEPT ![p].pc = "increment"]
    /\ UNCHANGED <<nextID, last, deletedIDs, numDeleted, http, arg, res, mem>>

\* m.nextID++; return t, nil: create returns nil and the status is 200
CreateIncrement(p) ==
    /\ procs[p].pc = "increment"
    /\ nextID' = nextID + 1
    /\ procs' = [procs EXCEPT ![p].pc = "idle", ![p].code = errorHandler(NilErr)]
    /\ UNCHANGED <<tasks, last, createdIDs, deletedIDs, numDeleted, http, arg, res, mem>>

\* PUT /task/{id} with a full body for the same id: update parses the id,
\* decodes the body, compares the ids and looks the task up with Find
UpdateFind(p, id) ==
    /\ procs[p].pc = "idle"
    /\ IF Find(m, id).ok
       THEN procs' = [procs EXCEPT ![p] = [pc |-> "update", method |-> "PUT", id |-> id, code |-> 0]]
       ELSE procs' = [procs EXCEPT ![p] = [pc |-> "idle", method |-> "PUT", id |-> id,
                                           code |-> errorHandler(notFoundError("task id doesn't exists"))]]
    /\ UNCHANGED <<tasks, nextID, last, createdIDs, deletedIDs, numDeleted, http, arg, res, mem>>

\* return tasks.Update(t)
UpdateCall(p) ==
    LET u == Update(m, FullTask(procs[p].id))
    IN /\ procs[p].pc = "update"
       /\ tasks' = u.m.tasks
       /\ procs' = [procs EXCEPT ![p].pc = "idle",
                                 ![p].code = errorHandler(IF u.err = NoErr THEN NilErr ELSE PlainErr(u.err))]
       /\ UNCHANGED <<nextID, last, createdIDs, deletedIDs, numDeleted, http, arg, res, mem>>

\* DELETE /task/{id}: return tasks.Delete(id)
DeleteCall(p, id) ==
    LET d == Delete(m, id)
    IN /\ procs[p].pc = "idle"
       /\ tasks' = d.m.tasks
       /\ deletedIDs' = IF d.err = NoErr THEN deletedIDs \cup {id} ELSE deletedIDs
       /\ numDeleted' = IF d.err = NoErr THEN numDeleted + 1 ELSE numDeleted
       /\ procs' = [procs EXCEPT ![p] = [pc |-> "idle", method |-> "DELETE", id |-> id,
                                         code |-> errorHandler(IF d.err = NoErr THEN NilErr ELSE PlainErr(d.err))]]
       /\ UNCHANGED <<nextID, last, createdIDs, http, arg, res, mem>>

NextConc ==
    \/ \E p \in Procs : CreateNewTask(p)
    \/ \E p \in Procs : CreateAppend(p)
    \/ \E p \in Procs : CreateIncrement(p)
    \/ \E p \in Procs, id \in ConcIDs : UpdateFind(p, id)
    \/ \E p \in Procs : UpdateCall(p)
    \/ \E p \in Procs, id \in ConcIDs : DeleteCall(p, id)

SpecConc == InitConc /\ [][NextConc]_vars

----------------------------------------------------------------------------
(* The store as pointers.                                                  *)
(* m.tasks is a []*Task: heap is the sequence of the Task objects          *)
(* allocated so far, an address is an index of heap (0 is nil), and        *)
(* mem.tasks holds addresses. mem.caller is the address of the Task the    *)
(* caller owns and hands to Update, as the loop variable of addTasks;      *)
(* mem.upd is the slot the last successful Update wrote.                   *)

\* t := &Task{ID: m.nextID, Title: title}; m.tasks = append(m.tasks, t)
CreateRef(mm, title) ==
    IF title = ""
    THEN [m |-> mm, err |-> ErrCreateEmptyTitle]
    ELSE [m |-> [mm EXCEPT !.heap = Append(mm.heap, NewTask(mm.nextID, title)),
                           !.tasks = Append(mm.tasks, Len(mm.heap) + 1),
                           !.nextID = mm.nextID + 1],
          err |-> NoErr]

\* the first slot whose task has the identifier, 0 when none has
IndexOfRef(mm, id) ==
    LET found == {i \in 1..Len(mm.tasks) : mm.heap[mm.tasks[i]].ID = id}
    IN IF found = {} THEN 0 ELSE CHOOSE i \in found : \A k \in found : i <= k

\* Update keeping the caller's pointer: m.tasks[i] = task
UpdateRefShared(mm, a) ==
    LET i == IndexOfRef(mm, mm.heap[a].ID)
    IN IF i = 0 THEN [m |-> mm, err |-> ErrUpdateUnknown, slot |-> 0]
       ELSE [m |-> [mm EXCEPT !.tasks[i] = a], err |-> NoErr, slot |-> i]

\* c := *task; m.tasks[i] = &c
UpdateRef(mm, a) ==
    LET i == IndexOfRef(mm, mm.heap[a].ID)
    IN IF i = 0 THEN [m |-> mm, err |-> ErrUpdateUnknown, slot |-> 0]
       ELSE [m |-> [mm EXCEPT !.heap = Append(mm.heap, mm.heap[a]),
                              !.tasks[i] = Len(mm.heap) + 1],
             err |-> NoErr, slot |-> i]

\* the values a caller gives its own Task
CallerTitles == {"a", "b"}
CallerTasks == {NewTask(id, title) : id \in 0..1, title \in CallerTitles}

InitAlias ==
    /\ tasks = <<>>
    /\ nextID = 0
    /\ last = NoCall
    /\ createdIDs = <<>>
    /\ deletedIDs = {}
    /\ numDeleted = 0
    /\ http = NoHTTP
    /\ arg = <<>>
    /\ res = NoRes
    /\ procs = NoProcs
    /\ mem = NoMem

\* m.Create(task.Title)
AliasCreate(title) ==
    LET c == CreateRef(mem, title)
    IN /\ Len(mem.heap) < MaxObjs
       /\ mem' = [c.m EXCEPT !.op = "create", !.err = c.err]
       /\ UNCHANGED <<tasks, nextID, last, createdIDs, deletedIDs, numDeleted, http, arg, res, procs>>

\* the caller's Task variable: task := Task{...}, or the next loop variable
CallerNew(t) ==
    /\ Len(mem.heap) < MaxObjs
    /\ mem' = [mem EXCEPT !.heap = Append(mem.heap, t), !.caller = Len(mem.heap) + 1,
                          !.op = "new", !.upd = 0, !.err = NoErr]
    /\ UNCHANGED <<tasks, nextID, last, createdIDs, deletedIDs, numDeleted, http, arg, res, procs>>

\* the caller assigns to its Task: the loop variable takes the next
\* element, or task.Title = ... between two calls of Update
CallerMutate(t) ==
    /\ mem.caller # 0
    /\ mem.heap[mem.caller] # t
    /\ mem' = [mem EXCEPT !.heap[mem.caller] = t, !.op = "mutate", !.err = NoErr]
    /\ UNCHANGED <<tasks, nextID, last, createdIDs, deletedIDs, numDeleted, http, arg, res, procs>>

\* m.Update(&task)
AliasUpdate ==
    LET u == UpdateRef(mem, mem.caller)
    IN /\ mem.caller # 0
       /\ Len(mem.heap) < MaxObjs
       /\ mem' = [u.m EXCEPT !.op = "update", !.err = u.err,
                             !.upd = IF u.err = NoErr THEN u.slot ELSE mem.upd]
       /\ UNCHANGED <<tasks, nextID, last, createdIDs, deletedIDs, numDeleted, http, arg, res, procs>>

NextAlias ==
    \/ \E title \in CallerTitles : AliasCreate(title)
    \/ \E t \in CallerTasks : CallerNew(t)
    \/ \E t \in CallerTasks : CallerMutate(t)
    \/ AliasUpdate

SpecAlias == InitAlias /\ [][NextAlias]_vars

----------------------------------------------------------------------------
(* Properties of the Manager *)

\* the indexes of the stored tasks with the given id
Holders(ts, id) == {k \in 1..Len(ts) : ts[k].ID = id}

\* s without its i-th element
Excise(s, i) == SubSeq(s, 1, i - 1) \o SubSeq(s, i + 1, Len(s))

\* C1: every successful Create returns an identifier greater than all the
\* identifiers returned by the Creates before it, the first being 0, and no
\* two stored tasks have the same identifier.
C1_IDsStrictlyIncrease ==
    /\ \A i, j \in 1..Len(createdIDs) : i < j => createdIDs[i] < createdIDs[j]
    /\ createdIDs # <<>> => createdIDs[1] = 0
    /\ \A i, j \in 1..Len(tasks) : i # j => tasks[i].ID # tasks[j].ID

\* a Create that succeeded after an earlier task had been deleted
C1_Witness ==
    /\ last.op = "Create" /\ last.err = NoErr
    /\ Len(createdIDs) >= 2
    /\ \E d \in deletedIDs : d < last.ret[1].ID
    /\ Len(tasks) >= 2

\* C5: Create("") fails with ErrCreateEmptyTitle, returns no task and
\* leaves the task sequence and the counter as they were, so that the next
\* Create returns what it would have returned before.
C5_EmptyTitleMutatesNothing ==
    [][(last'.op = "Create" /\ last'.title = "") =>
          /\ last'.err = ErrCreateEmptyTitle
          /\ last'.ret = <<>>
          /\ tasks' = tasks
          /\ nextID' = nextID
          /\ Create(m', "a").task = Create(m, "a").task]_vars

\* a failed Create on a store that holds tasks
C5_Witness ==
    /\ last.op = "Create" /\ last.title = "" /\ last.err = ErrCreateEmptyTitle
    /\ tasks # <<>>
    /\ nextID > Len(tasks)

\* C6: Count() is the number of successful Creates minus the number of
\* successful Deletes.
C6_CountIsCreatesMinusDeletes ==
    /\ Count(m) = Len(createdIDs) - numDeleted
    /\ last.op = "Count" => last.n = Len(createdIDs) - numDeleted

\* Count called after creates and a delete, below the high-water mark
C6_Witness ==
    /\ last.op = "Count"
    /\ numDeleted >= 1
    /\ last.n >= 1
    /\ last.n < nextID

\* C7: Update of an identifier that is not stored fails with
\* ErrUpdateUnknown and changes nothing; Update of a stored identifier
\* succeeds, makes Find return the argument, and changes neither another
\* record, nor the position of the record, nor the length, nor the counter.
C7_UpdateReplacesOneRecord ==
    [][last'.op = "Update" =>
          LET t == last'.task[1]
              at == Holders(tasks, t.ID)
          IN IF at = {}
             THEN /\ last'.err = ErrUpdateUnknown
                  /\ tasks' = tasks
                  /\ nextID' = nextID
             ELSE /\ last'.err = NoErr
                  /\ Find(m', t.ID) = [task |-> <<t>>, ok |-> TRUE]
                  /\ Len(tasks') = Len(tasks)
                  /\ \A k \in 1..Len(tasks) : tasks'[k] = IF k \in at THEN t ELSE tasks[k]
                  /\ Cardinality(at) = 1
                  /\ nextID' = nextID]_vars

\* a successful Update of the second of several records that changed it
C7_Witness ==
    /\ last.op = "Update" /\ last.err = NoErr
    /\ Len(tasks) >= 2
    /\ tasks[2] = last.task[1]
    /\ tasks[2].Title = "b" /\ tasks[2].Done
    /\ tasks[1].Title = "a"

\* C8: an identifier that was deleted is never found again, and deleting
\* it again fails with ErrDeleteUnknown.
C8_DeletedStaysDeleted ==
    /\ \A id \in deletedIDs :
          /\ Find(m, id) = [task |-> <<>>, ok |-> FALSE]
          /\ Delete(m, id).err = ErrDeleteUnknown
    /\ (last.op = "Find" /\ last.id \in deletedIDs) => ~last.ok
    /\ (last.op = "Delete" /\ last.err = NoErr) => last.id \in deletedIDs

\* a second Delete of a deleted identifier, after a later Create
C8_Witness ==
    /\ last.op = "Delete" /\ last.err = ErrDeleteUnknown
    /\ last.id \in deletedIDs
    /\ \E k \in 1..Len(tasks) : tasks[k].ID > last.id

\* C9: a successful Delete excises the one record with the identifier and
\* keeps the other records and their order; a failing Delete changes
\* nothing.
C9_DeleteExcisesOneRecord ==
    [][last'.op = "Delete" =>
          LET at == Holders(tasks, last'.id)
          IN IF at = {}
             THEN /\ last'.err = ErrDeleteUnknown
                  /\ tasks' = tasks
                  /\ nextID' = nextID
             ELSE /\ last'.err = NoErr
                  /\ \E i \in at : tasks' = Excise(tasks, i)
                  /\ Holders(tasks', last'.id) = {}
                  /\ nextID' = nextID]_vars

\* a Delete of the middle one of three records
C9_Witness ==
    /\ last.op = "Delete" /\ last.err = NoErr
    /\ Len(tasks) = 2
    /\ tasks[1].ID < last.id /\ last.id < tasks[2].ID

----------------------------------------------------------------------------
(* Properties of the REST handler *)

\* the path segment of the last request
LastSeg == SubSeq(http.req.path, Len(Path) + 1, Len(http.req.path))

\* the tasks of s are in the order in which Create made them
InCreationOrder(s) == \A i, j \in 1..Len(s) : i < j => s[i].ID < s[j].ID

\* C2: a GET list request without filter and without sortBy returns the
\* stored tasks in the order in which they were created, whatever requests
\* came before it.
C2_ListInInsertionOrder ==
    (http.method = "GET" /\ LastSeg = <<>> /\ http.req.query = NoQuery) =>
        /\ http.code = StatusOK
        /\ http.out = tasks
        /\ InCreationOrder(http.out)

\* C3: a DELETE whose id parses and matches no stored task is answered 404.
C3_DeleteUnknownIs404 ==
    [][(http'.method = "DELETE" /\ Len(http'.req.path) > Len(Path)) =>
          LET id == parseID(http'.req)
          IN (id.err = NoErr /\ Holders(tasks, id.val) = {}) =>
                 /\ http'.code = StatusNotFound
                 /\ http'.code # StatusInternalServerError]_vars

\* the value the body gives for a key of the Task object
Given(body, k) ==
    CASE k = "id" -> <<body.val.ID>>
      [] k = "title" -> <<body.val.Title>>
      [] k = "date" -> <<body.val.Date>>
      [] k = "note" -> <<body.val.Note>>
      [] k = "priority" -> <<body.val.Priority>>
      [] k = "done" -> <<body.val.Done>>

\* the field of a task that a key of the Task object names
Field(t, k) ==
    CASE k = "id" -> <<t.ID>>
      [] k = "title" -> <<t.Title>>
      [] k = "date" -> <<t.Date>>
      [] k = "note" -> <<t.Note>>
      [] k = "priority" -> <<t.Priority>>
      [] k = "done" -> <<t.Done>>

\* C10: PUT /task/{id} fails at the first of: id unparseable (400), body
\* not decodable (400), body id different from path id (400), no stored
\* task with the id (404); otherwise it answers 200 and the stored record
\* has the body's value in every field the body gives and the zero value
\* in every other field. A failing PUT changes nothing.
C10_PutValidationOrder ==
    [][(http'.method = "PUT" /\ Len(http'.req.path) > Len(Path)) =>
          LET r == http'.req
              id == parseID(r)
              t == decodeTask(r.body)
              at == Holders(tasks, id.val)
              same == tasks' = tasks /\ nextID' = nextID
          IN IF id.err # NoErr THEN http'.code = StatusBadRequest /\ same
             ELSE IF t.err # NoErr THEN http'.code = StatusBadRequest /\ same
             ELSE IF t.task.ID # id.val THEN http'.code = StatusBadRequest /\ same
             ELSE IF at = {} THEN http'.code = StatusNotFound /\ same
             ELSE /\ http'.code = StatusOK
                  /\ nextID' = nextID
                  /\ Len(tasks') = Len(tasks)
                  /\ \A k \in 1..Len(tasks) : k \notin at => tasks'[k] = tasks[k]
                  /\ \A k \in at : \A key \in AllKeys :
                        Field(tasks'[k], key) =
                            IF key \in r.body.keys THEN Given(r.body, key)
                            ELSE Field(NewTask(0, ""), key)]_vars

\* a PUT of {"id":0} that replaced a record which had a title and a date
C10_Witness ==
    /\ http.method = "PUT" /\ http.code = StatusOK
    /\ http.req.body.keys = {"id"}
    /\ Len(tasks) = 2
    /\ tasks[2] = NewTask(0, "")
    /\ tasks[1].ID = 1

\* C11: GET /task/{id} answers 400 when the id does not parse, 404 when it
\* parses (negative or not) and no stored task has it, and otherwise 200
\* with the stored record of that id; it never changes the store.
C11_GetOneByID ==
    [][(http'.method = "GET" /\ Len(http'.req.path) > Len(Path)) =>
          LET id == parseID(http'.req)
              at == Holders(tasks, id.val)
          IN /\ tasks' = tasks
             /\ nextID' = nextID
             /\ IF id.err # NoErr THEN http'.code = StatusBadRequest
                ELSE IF at = {} THEN http'.code = StatusNotFound
                ELSE /\ http'.code = StatusOK
                     /\ Cardinality(at) = 1
                     /\ \A k \in at : http'.out = <<tasks[k]>>]_vars

\* a GET of the second stored record, which a PUT had replaced before
C11_Witness ==
    /\ http.method = "GET" /\ http.code = StatusOK
    /\ LastSeg # <<>>
    /\ Len(tasks) = 2
    /\ http.out = <<tasks[2]>>
    /\ tasks[2].Title = "b"

\* C15: a GET list request whose filter and sortBy are absent or not
\* recognized answers 200 with all the stored tasks in the store's order
\* and changes nothing.
C15_UnknownSelectorsIgnored ==
    [][(/\ http'.method = "GET" /\ Len(http'.req.path) = Len(Path)
        /\ http'.req.query.filter \notin filters
        /\ http'.req.query.sortBy \notin sorters) =>
          /\ http'.code = StatusOK
          /\ http'.out = tasks
          /\ tasks' = tasks
          /\ nextID' = nextID]_vars

\* a list with two unknown selectors of a store that is not in creation order
C15_Witness ==
    /\ http.method = "GET" /\ LastSeg = <<>>
    /\ http.req.query = [filter |-> "bogus", sortBy |-> "bogus"]
    /\ http.code = StatusOK
    /\ Len(http.out) = 2
    /\ http.out[1].ID > http.out[2].ID
    /\ http.out[1].Done # http.out[2].Done

\* GET /task/0
GetZero == Request("GET", <<"0">>, NoQuery, NoBody)

\* C16: POST answers 200 exactly when the body is well-formed and has a
\* non-empty title; it then appends one task with the next identifier, the
\* title and zero values (GET /task/0 returns it on a fresh store);
\* otherwise it answers 400 and changes neither the tasks nor the counter.
C16_PostCreatesOrRejects ==
    [][http'.method = "POST" =>
          LET b == http'.req.body
              good == b.wellFormed /\ "title" \in b.keys /\ b.val.Title # ""
              t == [ID |-> nextID, Title |-> b.val.Title, Date |-> 0, Note |-> "",
                    Priority |-> 0, Done |-> FALSE]
          IN IF good
             THEN /\ http'.code = StatusOK
                  /\ tasks' = tasks \o <<t>>
                  /\ nextID' = nextID + 1
                  /\ (tasks = <<>> /\ nextID = 0) =>
                        /\ RestAPI(m', GetZero).code = StatusOK
                        /\ RestAPI(m', GetZero).out = <<[t EXCEPT !.ID = 0]>>
             ELSE /\ http'.code = StatusBadRequest
                  /\ tasks' = tasks
                  /\ nextID' = nextID]_vars

\* a second POST, with a key besides the title, that created task 1
C16_Witness ==
    /\ http.method = "POST" /\ http.code = StatusOK
    /\ http.req.body.keys = {"title", "priority"}
    /\ Len(tasks) = 2
    /\ tasks[2] = NewTask(1, "a")

\* C17: PUT /task/ without an identifier answers 200 and changes nothing,
\* whatever its body.
C17_PutWithoutIDIsNoOp ==
    [][(http'.method = "PUT" /\ Len(http'.req.path) = Len(Path)) =>
          /\ http'.code = StatusOK
          /\ tasks' = tasks
          /\ nextID' = nextID]_vars

\* a PUT /task/ with a full body for the stored task 0
C17_Witness ==
    /\ http.method = "PUT" /\ LastSeg = <<>>
    /\ http.req.body.wellFormed /\ http.req.body.keys = AllKeys /\ http.req.body.val.ID = 0
    /\ http.code = StatusOK
    /\ tasks # <<>> /\ tasks[1] = NewTask(0, "a")

\* C18: a request with a method other than GET, POST, PUT and DELETE
\* answers 400 and changes nothing, whatever its path and body.
C18_OtherMethodIs400 ==
    [][http'.method \notin {"GET", "POST", "PUT", "DELETE"} =>
          /\ http'.code = StatusBadRequest
          /\ tasks' = tasks
          /\ nextID' = nextID]_vars

\* a PATCH /task/0 with a full body for the stored task 0
C18_Witness ==
    /\ http.method = "PATCH" /\ LastSeg = <<"0">>
    /\ http.req.body.wellFormed
    /\ http.code = StatusBadRequest
    /\ tasks # <<>> /\ tasks[1] = NewTask(0, "a")

\* no stored task has an empty title
NoEmptyTitle(ts) == \A i \in 1..Len(ts) : ts[i].Title # ""

\* the request r with the title "b" written into its body
WithTitle(r) == [r EXCEPT !.body.keys = @ \cup {"title"}, !.body.val.Title = "b"]

\* C21: the title is checked at creation only. A PUT whose body decodes to
\* an empty title gets the status the same request gets with a title, and
\* when that is 200 the stored task has the empty title; a request that is
\* no PUT (so POST and DELETE, which call Create and Delete) never brings
\* an empty title into a store that has none.
C21_TitleCheckedOnlyAtCreation ==
    [][LET r == http'.req
           t == decodeTask(r.body)
       IN /\ (http'.method = "PUT" /\ t.err = NoErr /\ t.task.Title = "") =>
                 /\ http'.code = RestAPI(m, WithTitle(r)).code
                 /\ (http'.code = StatusOK /\ Len(r.path) > Len(Path)) =>
                        /\ IndexOf(tasks', t.task.ID) # 0
                        /\ tasks'[IndexOf(tasks', t.task.ID)].Title = ""
          /\ (http'.method # "PUT" /\ NoEmptyTitle(tasks)) => NoEmptyTitle(tasks')
      ]_vars

\* the PUT /task/0 with the body {"id":0} was answered 200 and the stored
\* task 0, created with the title "a", has the empty title
C21_Witness ==
    /\ http.method = "PUT" /\ LastSeg = <<"0">>
    /\ http.req.body.wellFormed /\ "title" \notin http.req.body.keys
    /\ http.code = StatusOK
    /\ ~NoEmptyTitle(tasks)
    /\ tasks[1] = NewTask(0, "")

\* the statuses errorHandler writes for an error
ErrorStatuses == {StatusBadRequest, StatusNotFound, StatusInternalServerError}

\* C22: a request answered with 400, 404 or 500 leaves the task sequence
\* and the identifier counter as they were before it.
C22_ErrorLeavesStoreUnchanged ==
    [][http'.code \in ErrorStatuses =>
          /\ tasks' = tasks
          /\ nextID' = nextID]_vars

\* a POST with the body {"title":""} was answered 400 on a store that
\* holds the task 0 and has 1 as its next identifier
C22_Witness ==
    /\ http.method = "POST"
    /\ http.req.body.wellFormed /\ http.req.body.keys = {"title"} /\ http.req.body.val.Title = ""
    /\ http.code = StatusBadRequest
    /\ Len(tasks) = 1 /\ tasks[1].ID = 0
    /\ nextID = 1

----------------------------------------------------------------------------
(* Properties of Sort.Tasks *)

\* the sort key a preset comparator looks at
SortKey(by, t) == IF by \in {"dateAsc", "dateDesc"} THEN t.Date ELSE t.Priority

\* the position in s of the task with the given id
PosOf(s, id) == CHOOSE i \in 1..Len(s) : s[i].ID = id

\* C4: Sort.Tasks with a preset comparator is stable: two tasks with equal
\* sort keys are in the same relative order after the sort as before it.
C4_SortIsStable ==
    res.fn = "Sort" =>
        \A i, j \in 1..Len(arg) :
            (i < j /\ SortKey(res.by, arg[i]) = SortKey(res.by, arg[j])) =>
                PosOf(res.out, arg[i].ID) < PosOf(res.out, arg[j].ID)

\* C14: after Sort.Tasks with a preset comparator the slice is a
\* permutation of the input and every adjacent pair satisfies the
\* comparator, duplicate keys included.
C14_SortedPermutation ==
    res.fn = "Sort" =>
        /\ Len(res.out) = Len(arg)
        /\ \A i \in 1..Len(arg) : \E k \in 1..Len(res.out) : res.out[k] = arg[i]
        /\ \A i, j \in 1..Len(res.out) : i # j => res.out[i] # res.out[j]
        /\ \A i \in 1..(Len(res.out) - 1) : Less(res.by, res.out[i], res.out[i + 1])

\* a sort of three tasks, two of them with the same priority, that moved tasks
C14_Witness ==
    /\ res.fn = "Sort" /\ res.by = "priorityDesc"
    /\ Len(arg) = 3
    /\ arg[1].Priority = 0 /\ arg[2].Priority = 1 /\ arg[3].Priority = 0
    /\ res.out # arg

----------------------------------------------------------------------------
(* Properties of Filter.Tasks *)

\* C13: Filter.Tasks with a preset predicate returns exactly the tasks of
\* the argument that satisfy the predicate, in their order in the argument,
\* and leaves the argument as it was.
C13_FilterIsSubsequence ==
    res.fn = "Filter" =>
        LET want == {i \in 1..Len(arg) : Keep(res.by, arg[i])}
        IN /\ Len(res.out) = Cardinality(want)
           /\ \A k \in 1..Len(res.out) : \E i \in want : res.out[k] = arg[i]
           /\ \A k, l \in 1..Len(res.out) :
                 k < l => PosOf(arg, res.out[k].ID) < PosOf(arg, res.out[l].ID)
           /\ res.seq = arg

\* a filter that kept the first and the third of three tasks
C13_Witness ==
    /\ res.fn = "Filter" /\ res.by = "isScheduled"
    /\ Len(arg) = 3
    /\ Len(res.out) = 2
    /\ res.out[1] = arg[1] /\ res.out[2] = arg[3]

----------------------------------------------------------------------------
(* Properties of requests served at the same time *)

\* C12: with POST requests interleaved at the statements of Create, no two
\* stored tasks have the same identifier and no created task is missing
\* from the sequence.
C12_ConcurrentCreatesUnique ==
    /\ \A i, j \in 1..Len(tasks) : i # j => tasks[i].ID # tasks[j].ID
    /\ Len(tasks) = Len(createdIDs) - numDeleted

\* C20: a PUT served while a DELETE of the same identifier is served
\* answers 200 or 404, never 500.
C20_ConcurrentPutNever500 ==
    \A p \in Procs :
        (procs[p].method = "PUT" /\ procs[p].code # 0) =>
            /\ procs[p].code \in {StatusOK, StatusNotFound}
            /\ procs[p].code # StatusInternalServerError

----------------------------------------------------------------------------
(* Properties of the store as pointers *)

\* the records of the store, slot by slot
Stored(mm) == [i \in 1..Len(mm.tasks) |-> mm.heap[mm.tasks[i]]]

\* C19: Update stores a copy of its argument. No two slots of the store
\* hold the same object and the caller's object is in no slot; an
\* assignment to the caller's object leaves every stored record as it was;
\* a successful Update, also one reusing the object under another
\* identifier, writes the caller's value into one slot and leaves the
\* records of all other slots as they were.
C19_UpdateStoresCopy ==
    [][/\ \A i, j \in 1..Len(mem'.tasks) : i # j => mem'.tasks[i] # mem'.tasks[j]
       /\ \A i \in 1..Len(mem'.tasks) : mem'.tasks[i] # mem'.caller
       /\ mem'.op = "mutate" => Stored(mem') = Stored(mem)
       /\ (mem'.op = "update" /\ mem'.err = NoErr) =>
              /\ Len(mem'.tasks) = Len(mem.tasks)
              /\ Stored(mem')[mem'.upd] = mem.heap[mem.caller]
              /\ \A i \in 1..Len(mem.tasks) : i # mem'.upd => Stored(mem')[i] = Stored(mem)[i]
      ]_vars

\* the caller's object was handed to a successful Update and then given
\* another identifier, and the store still has the record Update wrote
C19_Witness ==
    /\ mem.op = "mutate"
    /\ mem.upd # 0
    /\ mem.heap[mem.caller].ID # Stored(mem)[mem.upd].ID
    /\ Stored(mem)[mem.upd].Title = "b"

====
